---- MODULE Spec2Model ----
(***************************************************************************)
(* Model of the `meticulous` crate (src/src/lib.rs): the extension traits  *)
(* ResultExt and OptionExt, their three annotated-unwrap methods (todo,    *)
(* assured, verified), the cfg gate on todo, the crate's unit tests and    *)
(* the example binary (src/examples/example.rs).                           *)
(*                                                                         *)
(* Text is modelled by TLA+ strings and string concatenation; the payload  *)
(* of a &str error is a sequence of one-character strings so that its      *)
(* Debug rendering (quotes and escapes) is computed character by           *)
(* character.                                                              *)
(***************************************************************************)
EXTENDS Integers, Sequences, FiniteSets, TLC

VARIABLES
    feature,            \* cargo feature "disallow-todo-on-release" is enabled
    debug_assertions,   \* cfg(debug_assertions) of the build profile
    build,              \* "unbuilt", "ok" or "error" (rustc's verdict)
    pc,                 \* position of the running program
    caller,             \* the harness that made the last call
    shape,              \* "Option" or "Result": the receiver type of the last call
    self,               \* the container the last call consumed
    op,                 \* "todo", "assured" or "verified"
    reason,             \* the reason text of the last call ("" for todo)
    outcome             \* what the last call did: returned a value or panicked

vars == <<feature, debug_assertions, build, pc, caller, shape, self, op, reason, outcome>>

-----------------------------------------------------------------------------
(* Bounds *)

\* Contained success values are drawn from 0 .. MaxVal.
MaxVal == 2

-----------------------------------------------------------------------------
(* Containers and outcomes *)

None == [tag |-> "None"]
Some(v) == [tag |-> "Some", val |-> v]
Ok(v) == [tag |-> "Ok", val |-> v]
Err(e) == [tag |-> "Err", err |-> e]

Return(v) == [kind |-> "return", val |-> v]
Panic(m) == [kind |-> "panic", msg |-> m]
NoOutcome == [kind |-> "none"]

\* Error payloads E (every E: Debug).
StrErr(cs) == [ty |-> "str", chars |-> cs]
IntErr(n) == [ty |-> "i32", n |-> n]
TryFromIntError == [ty |-> "TryFromIntError"]

-----------------------------------------------------------------------------
(* Text rendering *)

\* str::escape_debug on one character, for the printable ASCII range.
EscapeDebugChar(c) ==
    CASE c = "\"" -> "\\\""
      [] c = "\\" -> "\\\\"
      [] c = "\n" -> "\\n"
      [] c = "\t" -> "\\t"
      [] c = "\r" -> "\\r"
      [] OTHER -> c

RECURSIVE EscapeDebug(_)
EscapeDebug(cs) ==
    IF cs = <<>> THEN "" ELSE EscapeDebugChar(Head(cs)) \o EscapeDebug(Tail(cs))

\* {:?} of the error payload, which is all the bound E: Debug gives the crate.
DebugFmt(e) ==
    CASE e.ty = "str" -> "\"" \o EscapeDebug(e.chars) \o "\""
      [] e.ty = "i32" -> ToString(e.n)
      [] e.ty = "TryFromIntError" -> "TryFromIntError(())"

-----------------------------------------------------------------------------
(* The standard unwrapping primitives the crate calls *)

\* Result::expect(msg): Ok(v) => v, Err(e) => panic!("{msg}: {e:?}")
ResultExpect(s, msg) ==
    IF s.tag = "Ok" THEN Return(s.val) ELSE Panic(msg \o ": " \o DebugFmt(s.err))

\* Mutation: unwrap_or_default in place of expect.
OptionExpectOrDefault(s, msg) ==
    IF s.tag = "Some" THEN Return(s.val) ELSE Return(0)

\* Option::expect(msg): Some(v) => v, None => panic!("{msg}")
OptionExpect(s, msg) ==
    IF s.tag = "Some" THEN Return(s.val) ELSE Panic(msg)

-----------------------------------------------------------------------------
(* impl ResultExt<T, E> for Result<T, E> *)

\* Mutation: the body is the todo!() macro, which panics whatever self holds.
ResultTodoMacro(s) == Panic("not yet implemented")

ResultTodo(s) == ResultExpect(s, "not yet implemented")

\* unwrap_or_else(|_| panic!(..)): the closure ignores the error it is given.
ResultAssured(s, r) ==
    IF s.tag = "Ok"
    THEN Return(s.val)
    ELSE Panic("the success was expected to be assured, but the error was returned: " \o r)

ResultVerified(s, r) ==
    IF s.tag = "Ok"
    THEN Return(s.val)
    ELSE Panic("the success was expected to be verified in the code earlier, but the error was returned: " \o r)

-----------------------------------------------------------------------------
(* impl OptionExt<T> for Option<T> *)

\* Mutation: unwrap_or(panic!(..)), whose argument is evaluated before the call.
OptionTodoEager(s) == Panic("not yet implemented")

OptionTodo(s) == OptionExpect(s, "not yet implemented")

\* Mutation: the template of ResultExt::assured pasted into OptionExt::assured.
OptionAssuredResultTemplate(s, r) ==
    IF s.tag = "Some"
    THEN Return(s.val)
    ELSE Panic("the success was expected to be assured, but the error was returned: " \o r)

OptionAssured(s, r) ==
    IF s.tag = "Some"
    THEN Return(s.val)
    ELSE Panic("the value was assured to exist but was None: " \o r)

\* Mutation: the template of ResultExt::verified pasted into OptionExt::verified.
OptionVerifiedResultTemplate(s, r) ==
    IF s.tag = "Some"
    THEN Return(s.val)
    ELSE Panic("the success was expected to be verified in the code earlier, but the error was returned: " \o r)

OptionVerified(s, r) ==
    IF s.tag = "Some"
    THEN Return(s.val)
    ELSE Panic("it was verified that value presents but None was returned: " \o r)

-----------------------------------------------------------------------------
(* Build-time configuration *)

\* Mutation: the gate forgets the build profile, #[cfg(not(feature = ".."))].
TodoCfgFeatureOnly(f, d) == ~f

\* #[cfg(not(all(feature = "disallow-todo-on-release", not(debug_assertions))))]
TodoCfg(f, d) == ~(f /\ ~d)

\* The methods each trait declares: none of the declarations is cfg-gated.
ResultExtItems == {"todo", "assured", "verified"}
OptionExtItems == {"todo", "assured", "verified"}

\* The methods each impl block provides under a configuration.
ResultImplItems(f, d) ==
    (IF TodoCfg(f, d) THEN {"todo"} ELSE {}) \cup {"assured", "verified"}
OptionImplItems(f, d) ==
    (IF TodoCfg(f, d) THEN {"todo"} ELSE {}) \cup {"assured", "verified"}

\* rustc accepts the crate iff every impl provides every item of its trait
\* (otherwise E0046, "not all trait items implemented").
Compiles(f, d) ==
    /\ ResultExtItems \subseteq ResultImplItems(f, d)
    /\ OptionExtItems \subseteq OptionImplItems(f, d)

-----------------------------------------------------------------------------
(* Inputs *)

Values == 0 .. MaxVal

Reasons == {"X", "always true for 64-bit apps", "boundaries already checked"}

EmergencyFailure ==
    <<"e", "m", "e", "r", "g", "e", "n", "c", "y", " ", "f", "a", "i", "l", "u", "r", "e">>

StrErrors == {StrErr(EmergencyFailure), StrErr(<<"a", "\"", "b">>), StrErr(<<>>)}
IntErrors == {IntErr(n) : n \in {-1, 7}}

Options == {None} \cup {Some(v) : v \in Values}
OkResults == {Ok(v) : v \in Values}

-----------------------------------------------------------------------------
(* State machine *)

Init ==
    /\ feature \in BOOLEAN
    /\ debug_assertions \in BOOLEAN
    /\ build = "unbuilt"
    /\ pc = "start"
    /\ caller = "none"
    /\ shape = "none"
    /\ self = [tag |-> "none"]
    /\ op = "none"
    /\ reason = ""
    /\ outcome = NoOutcome

\* cargo build of the crate under the chosen feature set and profile.
Compile ==
    /\ build = "unbuilt"
    /\ build' = IF Compiles(feature, debug_assertions) THEN "ok" ELSE "error"
    /\ pc' = IF Compiles(feature, debug_assertions) THEN "running" ELSE "start"
    /\ UNCHANGED <<feature, debug_assertions, caller, shape, self, op, reason, outcome>>

\* One call: the container is consumed, and the call returns or panics.
Call(who, sh, s, o, r, out, next) ==
    /\ build = "ok"
    /\ caller' = who
    /\ shape' = sh
    /\ self' = s
    /\ op' = o
    /\ reason' = r
    /\ outcome' = out
    /\ pc' = IF out.kind = "panic" THEN "panicked" ELSE next
    /\ UNCHANGED <<feature, debug_assertions, build>>

-----------------------------------------------------------------------------
(* Standard conversions the tests and the example feed to the methods *)

\* Integers wider than the checker's own are held as Wide(hi, lo), the value
\* hi * 2^16 + lo with 0 <= lo < 2^16.
Wide(hi, lo) == [hi |-> hi, lo |-> lo]

U16Max == 2^16 - 1
I32MaxWide == Wide(2^15 - 1, U16Max)       \* i32::MAX = 2147483647
I32MinWide == Wide(-(2^15), 0)             \* i32::MIN = -2147483648

\* u16::try_from(x) for an integer x of a wider type: Ok iff 0 <= x <= u16::MAX.
U16TryFrom(x) == IF x.hi = 0 THEN Ok(x.lo) ELSE Err(TryFromIntError)

\* (i32::MIN as i64..=i32::MAX as i64).contains(&x)
InI32Range(x) == I32MinWide.hi <= x.hi /\ x.hi <= I32MaxWide.hi

\* i32::try_from(x) for x: i64.
I32TryFrom(x) == IF InI32Range(x) THEN Ok(x.hi * 2^16 + x.lo) ELSE Err(TryFromIntError)

\* str::strip_prefix on character sequences.
StripPrefix(s, p) ==
    IF Len(p) <= Len(s) /\ SubSeq(s, 1, Len(p)) = p
    THEN Some(SubSeq(s, Len(p) + 1, Len(s)))
    ELSE None

Hello == <<"h", "e", "l", "l", "o">>

\* Inputs of the conversions: both sides of each range limit.
WideInts ==
    {Wide(0, 0), Wide(0, U16Max), Wide(1, 0), Wide(-1, U16Max), I32MaxWide, Wide(2^16, 0)}
RandomI64 ==
    {Wide(-(2^15) - 1, U16Max), I32MinWide, Wide(0, 0), Wide(0, MaxVal), I32MaxWide,
     Wide(2^15, 0)}

Conversions == {U16TryFrom(x) : x \in WideInts}
Results == OkResults \cup {Err(e) : e \in StrErrors \cup IntErrors} \cup Conversions

-----------------------------------------------------------------------------
(* Calls made by a user of the crate *)

OptionTodoCall ==
    /\ pc = "running"
    /\ "todo" \in OptionImplItems(feature, debug_assertions)
    /\ \E s \in Options : Call("user", "Option", s, "todo", "", OptionTodo(s), "running")

OptionAssuredCall ==
    /\ pc = "running"
    /\ \E s \in Options, r \in Reasons :
          Call("user", "Option", s, "assured", r, OptionAssured(s, r), "running")

OptionVerifiedCall ==
    /\ pc = "running"
    /\ \E s \in Options, r \in Reasons :
          Call("user", "Option", s, "verified", r, OptionVerified(s, r), "running")

ResultTodoCall ==
    /\ pc = "running"
    /\ "todo" \in ResultImplItems(feature, debug_assertions)
    /\ \E s \in Results : Call("user", "Result", s, "todo", "", ResultTodo(s), "running")

ResultAssuredCall ==
    /\ pc = "running"
    /\ \E s \in Results, r \in Reasons :
          Call("user", "Result", s, "assured", r, ResultAssured(s, r), "running")

ResultVerifiedCall ==
    /\ pc = "running"
    /\ \E s \in Results, r \in Reasons :
          Call("user", "Result", s, "verified", r, ResultVerified(s, r), "running")

-----------------------------------------------------------------------------
(* mod tests *)

test_result_todo ==
    /\ pc = "running"
    /\ "todo" \in ResultImplItems(feature, debug_assertions)
    /\ LET s == U16TryFrom(I32MaxWide)
       IN Call("test_result_todo", "Result", s, "todo", "", ResultTodo(s), "running")

test_result_assured ==
    /\ pc = "running"
    /\ LET s == U16TryFrom(I32MaxWide)
           r == "always ok on linux"
       IN Call("test_result_assured", "Result", s, "assured", r, ResultAssured(s, r), "running")

test_result_verified ==
    /\ pc = "running"
    /\ LET s == U16TryFrom(I32MaxWide)
           r == "boundaries already checked"
       IN Call("test_result_verified", "Result", s, "verified", r, ResultVerified(s, r), "running")

test_option_todo ==
    /\ pc = "running"
    /\ "todo" \in OptionImplItems(feature, debug_assertions)
    /\ LET s == StripPrefix(Hello, <<"a">>)
       IN Call("test_option_todo", "Option", s, "todo", "", OptionTodo(s), "running")

test_option_assured ==
    /\ pc = "running"
    /\ LET s == StripPrefix(Hello, <<"a">>)
           r == "string always starts with a"
       IN Call("test_option_assured", "Option", s, "assured", r, OptionAssured(s, r), "running")

test_option_verified ==
    /\ pc = "running"
    /\ LET s == StripPrefix(Hello, <<"a">>)
           r == "string prefix was already checked"
       IN Call("test_option_verified", "Option", s, "verified", r, OptionVerified(s, r), "running")

-----------------------------------------------------------------------------
(* examples/example.rs: fn main, one action per statement *)

\* i32::try_from(0i64).assured("never fails because 0 is a valid i32");
main_assured ==
    /\ pc = "running"
    /\ "todo" \in ResultImplItems(feature, debug_assertions)
    /\ LET s == I32TryFrom(Wide(0, 0))
           r == "never fails because 0 is a valid i32"
       IN Call("main", "Result", s, "assured", r, ResultAssured(s, r), "main_verified")

\* let i: i64 = random(); if in the i32 range { i32::try_from(0i64).verified(..) }
main_verified ==
    /\ pc = "main_verified"
    /\ \E i \in RandomI64 :
          IF InI32Range(i)
          THEN LET s == I32TryFrom(Wide(0, 0))
                   r == "boundaries were checked"
               IN Call("main", "Result", s, "verified", r, ResultVerified(s, r), "main_todo")
          ELSE /\ pc' = "main_todo"
               /\ UNCHANGED <<feature, debug_assertions, build, caller, shape, self, op,
                              reason, outcome>>

\* i32::try_from(random::<i64>()).todo();
main_todo ==
    /\ pc = "main_todo"
    /\ \E i \in RandomI64 :
          LET s == I32TryFrom(i)
          IN Call("main", "Result", s, "todo", "", ResultTodo(s), "exited")

-----------------------------------------------------------------------------

Next ==
    \/ Compile
    \/ OptionTodoCall
    \/ OptionAssuredCall
    \/ OptionVerifiedCall
    \/ ResultTodoCall
    \/ ResultAssuredCall
    \/ ResultVerifiedCall
    \/ test_result_todo
    \/ test_result_assured
    \/ test_result_verified
    \/ test_option_todo
    \/ test_option_assured
    \/ test_option_verified
    \/ main_assured
    \/ main_verified
    \/ main_todo

Spec == Init /\ [][Next]_vars

-----------------------------------------------------------------------------
(* Properties *)

\* The container the last call consumed held no success value.
IsFailing(s) == s.tag \in {"None", "Err"}

\* C1: a call of todo, assured or verified on Some(v), with any reason text,
\* returns exactly v and does not panic.
C1_OptionSomeReturnsValue ==
    (shape = "Option" /\ self.tag = "Some") =>
        /\ outcome.kind = "return"
        /\ outcome.val = self.val
        /\ pc # "panicked"

C1_Witness ==
    /\ shape = "Option"
    /\ op = "todo"
    /\ self = Some(MaxVal)
    /\ outcome = Return(MaxVal)

\* C2: a call of todo, assured or verified on Ok(v), with any error type and
\* any reason text, returns exactly v and does not panic.
C2_ResultOkReturnsValue ==
    (shape = "Result" /\ self.tag = "Ok") =>
        /\ outcome.kind = "return"
        /\ outcome.val = self.val
        /\ pc # "panicked"

C2_Witness ==
    /\ shape = "Result"
    /\ op = "verified"
    /\ reason = "boundaries already checked"
    /\ self = Ok(U16Max)
    /\ outcome = Return(U16Max)

\* C3: each of the six methods panics when it is called on None or Err(e), and
\* then returns nothing to its caller, whose thread is unwound; it panics only
\* when the container was None or Err(e).
C3_PanicsIffFailing ==
    (op # "none") =>
        /\ outcome.kind \in {"return", "panic"}
        /\ (outcome.kind = "panic") <=> IsFailing(self)
        /\ (pc = "panicked") <=> IsFailing(self)
        /\ IsFailing(self) => ~ENABLED Next

C3_Witness ==
    /\ caller = "test_option_todo"
    /\ self = None
    /\ outcome.kind = "panic"
    /\ pc = "panicked"

\* C4 (as claimed): assured(r) on Err(e) panics with the assured template, then
\* r, then ": ", then the rendering of e.
C4_ResultAssuredAppendsError ==
    (shape = "Result" /\ self.tag = "Err" /\ op = "assured") =>
        /\ outcome.kind = "panic"
        /\ outcome.msg =
              "the success was expected to be assured, but the error was returned: "
                 \o reason \o ": " \o DebugFmt(self.err)

\* C5 (as claimed): verified(r) on Err(e) panics with the verified template,
\* then r, then ": ", then the rendering of e.
C5_ResultVerifiedAppendsError ==
    (shape = "Result" /\ self.tag = "Err" /\ op = "verified") =>
        /\ outcome.kind = "panic"
        /\ outcome.msg =
              "the success was expected to be verified in the code earlier, but the error was returned: "
                 \o reason \o ": " \o DebugFmt(self.err)

\* C6 (as claimed): assured(X) on None panics with the template of the Result
\* form followed by X.
C6_OptionAssuredUsesResultTemplate ==
    (shape = "Option" /\ self.tag = "None" /\ op = "assured") =>
        /\ outcome.kind = "panic"
        /\ outcome.msg =
              "the success was expected to be assured, but the error was returned: " \o reason

\* C6 (amended): assured(X) on None panics with the diagnostic
\* "the value was assured to exist but was None: X", a template of the Option
\* form's own, with nothing after the reason.
C6_OptionAssuredMessage ==
    (shape = "Option" /\ self.tag = "None" /\ op = "assured") =>
        /\ outcome.kind = "panic"
        /\ outcome.msg = "the value was assured to exist but was None: " \o reason

C6_Witness ==
    /\ shape = "Option"
    /\ self = None
    /\ op = "assured"
    /\ reason = "X"
    /\ outcome = Panic("the value was assured to exist but was None: X")

\* C7 (as claimed): verified(X) on None panics with the template of the Result
\* form followed by X.
C7_OptionVerifiedUsesResultTemplate ==
    (shape = "Option" /\ self.tag = "None" /\ op = "verified") =>
        /\ outcome.kind = "panic"
        /\ outcome.msg =
              "the success was expected to be verified in the code earlier, but the error was returned: "
                 \o reason

\* C7 (amended): verified(X) on None panics with the diagnostic
\* "it was verified that value presents but None was returned: X", a template
\* of the Option form's own, with nothing after the reason.
C7_OptionVerifiedMessage ==
    (shape = "Option" /\ self.tag = "None" /\ op = "verified") =>
        /\ outcome.kind = "panic"
        /\ outcome.msg =
              "it was verified that value presents but None was returned: " \o reason

C7_Witness ==
    /\ shape = "Option"
    /\ self = None
    /\ op = "verified"
    /\ reason = "X"
    /\ outcome = Panic("it was verified that value presents but None was returned: X")

\* C8 (as claimed): todo() on None panics with "not yet implemented: None".
C8_OptionTodoRendersNone ==
    (shape = "Option" /\ self.tag = "None" /\ op = "todo") =>
        /\ outcome.kind = "panic"
        /\ outcome.msg = "not yet implemented: None"

\* C9 (as claimed): todo() on Err(e) panics with "not yet implemented: " and
\* the rendering of e, which for the error "emergency failure" is the
\* diagnostic `not yet implemented: emergency failure`.
C9_ResultTodoMessage ==
    (shape = "Result" /\ self.tag = "Err" /\ op = "todo") =>
        /\ outcome.kind = "panic"
        /\ outcome.msg = "not yet implemented: " \o DebugFmt(self.err)
        /\ self.err = StrErr(EmergencyFailure) =>
              outcome.msg = "not yet implemented: emergency failure"

\* C10: the build fails exactly when the feature is on and debug assertions
\* are off, and then no method is ever called; in the three other
\* configurations todo can be called on an Option and on a Result alike, and
\* returns the contained value or panics.
C10_TodoGate ==
    /\ (build # "unbuilt") => ((build = "error") <=> (feature /\ ~debug_assertions))
    /\ (build = "error") => (op = "none" /\ ~ENABLED Next)
    /\ (build = "ok" /\ pc = "running") =>
          (ENABLED OptionTodoCall /\ ENABLED ResultTodoCall)
    /\ (op = "todo") =>
          /\ ~(feature /\ ~debug_assertions)
          /\ IF IsFailing(self)
             THEN outcome.kind = "panic"
             ELSE outcome.kind = "return" /\ outcome.val = self.val

C10_Witness ==
    /\ feature
    /\ ~debug_assertions
    /\ build = "error"

====
